---- MODULE Spec2Model ----
(***************************************************************************)
(* Model of ahkab/symbolic.py: the symbolic MNA assembler                  *)
(* (generate_mna_and_N), the unknown vector (get_variables), the           *)
(* substitution helpers (parse_substitutions, apply_substitutions,         *)
(* _symbol_factory) and the driver symbolic_analysis.                      *)
(*                                                                         *)
(* Strings are sequences of one-character strings, so that slicing         *)
(* (part_id[1:]), concatenation and upper() are computed as the code       *)
(* computes them.  A sympy expression is a linear form: a function from    *)
(* terms to non-zero integer coefficients, a term being s^spow * atom or   *)
(* s^spow / atom.  A matrix is a record of its shape and its entries.      *)
(***************************************************************************)
EXTENDS Integers, Sequences, FiniteSets, TLC

\* len(circ.nodes_dict): the nodes are 0 .. NumNodes-1, node 0 the reference
NumNodes == 3
\* the longest circuit (number of devices) drawn by Init
MaxElems == 2
\* the longest substitution list drawn by InitSubs
MaxSubs == 2

VARIABLES
    circ,       \* the circuit: the sequence of its devices, in iteration order
    ac,         \* ac / ac_enable
    r0s,        \* opts['r0s']
    verbose,    \* verbose
    pc,         \* position in symbolic_analysis / in the substitution calls
    mna,        \* the MNA matrix
    N,          \* the constant term
    subs_g,     \* auxiliary map G -> 1/R, held as G |-> R
    index,      \* Pass 2: each device given a row, with the value of `index`
    warnings,   \* what printing.print_warning was called with, in order
    raised,     \* the exception that ended the call, "none" if none
    x,          \* the unknowns
    slist,      \* argument of parse_substitutions
    subs,       \* the user's substitution dict
    sol,        \* the solver's result
    tfs,        \* the transfer functions
    once,       \* the system after one call of apply_substitutions
    twice       \* the system after a second call on the result of the first

vars == <<circ, ac, r0s, verbose, pc, mna, N, subs_g, index, warnings, raised,
          x, slist, subs, sol, tfs, once, twice>>

Nodes == 0 .. (NumNodes - 1)

---------------------------------------------------------------------------
\* Strings

LowerChars == <<"a","b","c","d","e","f","g","h","i","j","k","l","m",
                "n","o","p","q","r","s","t","u","v","w","x","y","z">>

UpperChars == <<"A","B","C","D","E","F","G","H","I","J","K","L","M",
                "N","O","P","Q","R","S","T","U","V","W","X","Y","Z">>

IsLower(c) == \E i \in 1 .. Len(LowerChars) : LowerChars[i] = c

UpperChar(c) ==
    IF IsLower(c)
    THEN UpperChars[CHOOSE i \in 1 .. Len(LowerChars) : LowerChars[i] = c]
    ELSE c

\* str.upper()
upper(str) == [i \in 1 .. Len(str) |-> UpperChar(str[i])]

\* str[1:]
Rest(str) == IF Len(str) = 0 THEN <<>> ELSE Tail(str)

Digits == <<"0","1","2","3","4","5","6","7","8","9">>

\* str(circ.nodes_dict[i]): the external name of node i is its number
NodeName(i) == <<Digits[i + 1]>>

---------------------------------------------------------------------------
\* Symbols and expressions

\* every assumption enabled
enabled_assumptions_all == [real |-> TRUE, positive |-> TRUE, complex |-> TRUE]

\* enabled_assumptions = {'real':False, 'positive':False, 'complex':True}
enabled_assumptions == [real |-> FALSE, positive |-> FALSE, complex |-> TRUE]

NoOptions == [real |-> FALSE, positive |-> FALSE, complex |-> FALSE]
RealOnly == [real |-> TRUE, positive |-> FALSE, complex |-> FALSE]
RealPositive == [real |-> TRUE, positive |-> TRUE, complex |-> FALSE]
PositiveOnly == [real |-> FALSE, positive |-> TRUE, complex |-> FALSE]

\* _symbol_factory(name, **options): sympy.Symbol(name.upper(), **filtered)
symbol_factory(name, options) ==
    [kind |-> "Symbol",
     name |-> upper(name),
     assum |-> {i \in DOMAIN options : options[i] /\ enabled_assumptions[i]}]

\* a numeric literal (elem.value, elem.alpha, ...), named by the device
Number(label) == [kind |-> "Number", name |-> label, assum |-> {}]

One == Number(<<"1">>)

Term(spow, atom, inv) == [spow |-> spow, atom |-> atom, inv |-> inv]

Zero == <<>>

Coef(e, t) == IF t \in DOMAIN e THEN e[t] ELSE 0

Add(a, b) ==
    LET d == DOMAIN a \cup DOMAIN b
        nz == {t \in d : Coef(a, t) + Coef(b, t) # 0}
    IN  [t \in nz |-> Coef(a, t) + Coef(b, t)]

Neg(a) == [t \in DOMAIN a |-> 0 - a[t]]

Plus1 == Term(0, One, FALSE) :> 1

Minus1 == Neg(Plus1)

\* the expression `atom`
Val(atom) == Term(0, atom, FALSE) :> 1

\* the expression 1 / atom
Recip(atom) == Term(0, atom, TRUE) :> 1

\* the expression s * atom
STimes(atom) == Term(1, atom, FALSE) :> 1

\* the symbols (not the numbers) an expression mentions
FreeSymbols(e) == {t.atom : t \in {u \in DOMAIN e : u.atom.kind = "Symbol"}}

---------------------------------------------------------------------------
\* Matrices

\* sympy.matrices.zeros(r, c)
smzeros(r, c) ==
    [rows |-> r, cols |-> c,
     e |-> [p \in (0 .. (r - 1)) \X (0 .. (c - 1)) |-> Zero]]

Get(m, i, j) == m.e[<<i, j>>]

InRange(m, i, j) == i \in 0 .. (m.rows - 1) /\ j \in 0 .. (m.cols - 1)

\* m[i, j] = v
Put(m, i, j, v) == [m EXCEPT !.e[<<i, j>>] = v]

\* m[i, j] = m[i, j] + v
AddAt(m, i, j, v) == Put(m, i, j, Add(Get(m, i, j), v))

\* _expand_matrix(mat, add_a_row, add_a_col)
expand_matrix(mat, add_a_row, add_a_col) ==
    LET r == IF add_a_row THEN mat.rows + 1 ELSE mat.rows
        c == IF add_a_col THEN mat.cols + 1 ELSE mat.cols
    IN  [rows |-> r, cols |-> c,
         e |-> [p \in (0 .. (r - 1)) \X (0 .. (c - 1)) |->
                  IF InRange(mat, p[1], p[2]) THEN mat.e[p] ELSE Zero]]

\* mat[1:, 1:] (drop_col) or mat[1:, :]
DropFirst(mat, drop_col) ==
    LET o == IF drop_col THEN 1 ELSE 0
    IN  [rows |-> mat.rows - 1, cols |-> mat.cols - o,
         e |-> [p \in (0 .. (mat.rows - 2)) \X (0 .. (mat.cols - o - 1)) |->
                  mat.e[<<p[1] + 1, p[2] + o>>]]]

MatrixSymbols(m) == UNION {FreeSymbols(m.e[p]) : p \in DOMAIN m.e}

---------------------------------------------------------------------------
\* Devices and the circuit (the collaborators of ahkab.circuit / ahkab.devices)

\* a device: its class, part_id, terminals and class-specific attributes
Device(cls, part_id, n1, n2) ==
    [cls |-> cls, part_id |-> part_id, n1 |-> n1, n2 |-> n2,
     sn1 |-> 0, sn2 |-> 0, ng |-> 0, source_id |-> <<>>,
     is_symbolic |-> TRUE, is_voltage_defined |-> FALSE,
     coupling_devices |-> <<>>]

\* circuit.is_elem_voltage_defined(elem): a function of the device alone
is_elem_voltage_defined(elem) ==
    \/ elem.cls \in {"VSource", "EVSource", "HVSource", "Inductor"}
    \/ elem.is_voltage_defined

\* the positions of the voltage-defined devices of c, ascending
VdePositions(c) == {k \in 1 .. Len(c) : is_elem_voltage_defined(c[k])}

\* how many voltage-defined devices come before position k
VdeRank(c, k) == Cardinality({j \in VdePositions(c) : j < k})

NotFound == 0 - 1

\* circ.find_vde_index(id): the column index of the voltage-defined device
\* named id, counted among the voltage-defined devices in iteration order
find_vde_index(c, id) ==
    LET hits == {k \in VdePositions(c) : upper(c[k].part_id) = upper(id)}
    IN  IF hits = {} THEN NotFound
        ELSE VdeRank(c, CHOOSE k \in hits : \A j \in hits : k <= j)

---------------------------------------------------------------------------
\* generate_mna_and_N, Pass 1 (lines 381-460)

\* the value of a device parameter: its symbol, or its numeric literal
Param(elem, attr, options) ==
    IF elem.is_symbolic
    THEN symbol_factory(upper(elem.part_id), options)
    ELSE Number(elem.part_id \o <<".", attr>>)

ResistorG(elem) ==
    IF elem.is_symbolic
    THEN Val(symbol_factory(<<"G">> \o Rest(elem.part_id), RealPositive))
    ELSE Recip(Number(elem.part_id \o <<".", "value">>))

StampResistor(elem, st) ==
    LET R == symbol_factory(upper(elem.part_id), RealPositive)
        G == symbol_factory(<<"G">> \o Rest(elem.part_id), RealPositive)
        g == ResistorG(elem)
        m1 == AddAt(st.mna, elem.n1, elem.n1, g)
        m2 == AddAt(m1, elem.n1, elem.n2, Neg(g))
        m3 == AddAt(m2, elem.n2, elem.n1, Neg(g))
        m4 == AddAt(m3, elem.n2, elem.n2, g)
    IN  [st EXCEPT !.mna = m4,
                   !.subs_g = IF elem.is_symbolic
                              THEN (G :> R) @@ st.subs_g
                              ELSE st.subs_g]

\* a capacitor stamped whatever ac is
StampCapacitorAlways(elem, st, ac_) ==
    LET capa == STimes(Param(elem, "value", RealPositive))
        m1 == AddAt(st.mna, elem.n1, elem.n1, capa)
        m2 == AddAt(m1, elem.n1, elem.n2, Neg(capa))
        m3 == AddAt(m2, elem.n2, elem.n2, capa)
        m4 == AddAt(m3, elem.n2, elem.n1, Neg(capa))
    IN  [st EXCEPT !.mna = m4]

StampCapacitor(elem, st, ac_) ==
    IF ac_
    THEN LET capa == STimes(Param(elem, "value", RealPositive))
             m1 == AddAt(st.mna, elem.n1, elem.n1, capa)
             m2 == AddAt(m1, elem.n1, elem.n2, Neg(capa))
             m3 == AddAt(m2, elem.n2, elem.n2, capa)
             m4 == AddAt(m3, elem.n2, elem.n1, Neg(capa))
         IN  [st EXCEPT !.mna = m4]
    ELSE st

StampGISource(elem, st) ==
    LET alpha == Val(Param(elem, "value", RealOnly))
        m1 == AddAt(st.mna, elem.n1, elem.sn1, alpha)
        m2 == AddAt(m1, elem.n1, elem.sn2, Neg(alpha))
        m3 == AddAt(m2, elem.n2, elem.sn1, Neg(alpha))
        m4 == AddAt(m3, elem.n2, elem.sn2, alpha)
    IN  [st EXCEPT !.mna = m4]

StampISource(elem, st) ==
    LET IDC == Val(Param(elem, "dc_value", NoOptions))
        v1 == AddAt(st.N, elem.n1, 0, IDC)
        v2 == AddAt(v1, elem.n2, 0, Neg(IDC))
    IN  [st EXCEPT !.N = v2]

StampTransistor(elem, st, opts) ==
    LET gm == Val(symbol_factory(<<"g", "m", "_">> \o elem.part_id, RealPositive))
        r0 == Recip(symbol_factory(<<"r", "0", "_">> \o elem.part_id, RealPositive))
        m1 == AddAt(st.mna, elem.n1, elem.ng, gm)
        m2 == AddAt(m1, elem.n1, elem.n2, Neg(gm))
        m3 == AddAt(m2, elem.n2, elem.ng, Neg(gm))
        m4 == AddAt(m3, elem.n2, elem.n2, gm)
        m5 == AddAt(m4, elem.n1, elem.n1, r0)
        m6 == AddAt(m5, elem.n1, elem.n2, Neg(r0))
        m7 == AddAt(m6, elem.n2, elem.n1, Neg(r0))
        m8 == AddAt(m7, elem.n2, elem.n2, r0)
    IN  [st EXCEPT !.mna = IF opts.r0s THEN m8 ELSE m4]

StampDiode(elem, st) ==
    LET gd == Val(symbol_factory(<<"g">> \o elem.part_id, PositiveOnly))
        m1 == AddAt(st.mna, elem.n1, elem.n1, gd)
        m2 == AddAt(m1, elem.n1, elem.n2, Neg(gd))
        m3 == AddAt(m2, elem.n2, elem.n1, Neg(gd))
        m4 == AddAt(m3, elem.n2, elem.n2, gd)
    IN  [st EXCEPT !.mna = m4]

\* a skip that warns whatever the verbosity
SkipUnsupportedAlways(elem, st, verbose_) ==
    [st EXCEPT !.warnings = Append(@, upper(elem.part_id))]

\* the last branch: elif verbose: printing.print_warning("Skipped elem ...")
SkipUnsupported(elem, st, verbose_) ==
    IF verbose_ # 0
    THEN [st EXCEPT !.warnings = Append(@, upper(elem.part_id))]
    ELSE st

\* one iteration of the first loop
Pass1Elem(elem, st, opts, ac_, verbose_) ==
    CASE elem.cls = "Resistor" -> StampResistor(elem, st)
      [] elem.cls = "Capacitor" -> StampCapacitor(elem, st, ac_)
      [] elem.cls = "Inductor" -> st
      [] elem.cls = "GISource" -> StampGISource(elem, st)
      [] elem.cls = "ISource" -> StampISource(elem, st)
      [] elem.cls \in {"mosq_device", "ekv_device"} -> StampTransistor(elem, st, opts)
      [] elem.cls = "diode" -> StampDiode(elem, st)
      [] elem.cls = "FISource" -> st
      [] elem.cls = "InductorCoupling" -> st
      [] OTHER -> IF is_elem_voltage_defined(elem)
                  THEN st
                  ELSE SkipUnsupported(elem, st, verbose_)

RECURSIVE Pass1(_, _, _, _, _, _)
Pass1(c, k, st, opts, ac_, verbose_) ==
    IF k > Len(c) THEN st
    ELSE Pass1(c, k + 1, Pass1Elem(c[k], st, opts, ac_, verbose_), opts, ac_, verbose_)

---------------------------------------------------------------------------
\* generate_mna_and_N, Pass 2 (lines 462-509)

\* Python's  fmt % arg  for a single non-tuple argument: every conversion
\* specifier of fmt must consume exactly one argument, else TypeError
PercentFormat(nspecifiers, nargs) ==
    IF nspecifiers = nargs THEN "ok" ELSE "TypeError"

\* raise circuit.CircuitError('Element %s is not supported. ' +
\*                            'Please report this bug.' % elem.__class__)
\* the operator % binds tighter than +, so it is the second literal, which
\* holds no specifier, that is formatted with the one argument
RaiseUnsupported ==
    IF PercentFormat(0, 1) = "ok" THEN "CircuitError" ELSE "TypeError"

\* mna[i, j] = v on the record st, IndexError when (i, j) is outside mna
Assign(st, i, j, v) ==
    IF st.raised # "none" THEN st
    ELSE IF InRange(st.mna, i, j) THEN [st EXCEPT !.mna = Put(@, i, j, v)]
    ELSE [st EXCEPT !.raised = "IndexError"]

\* mna[i, j] += v on the record st, IndexError when (i, j) is outside mna
AddAssign(st, i, j, v) ==
    IF st.raised # "none" THEN st
    ELSE IF InRange(st.mna, i, j) THEN [st EXCEPT !.mna = AddAt(@, i, j, v)]
    ELSE [st EXCEPT !.raised = "IndexError"]

\* lines 465-473: the new row and column, then the KCL and KVL entries
ExpandAndCouple(elem, st) ==
    LET idx == st.mna.rows
        s0 == [st EXCEPT !.mna = expand_matrix(@, TRUE, TRUE),
                         !.N = expand_matrix(@, TRUE, FALSE),
                         !.index = Append(@, [part_id |-> elem.part_id, index |-> idx])]
        s1 == Assign(s0, elem.n1, idx, Plus1)
        s2 == Assign(s1, elem.n2, idx, Minus1)
        s3 == Assign(s2, idx, elem.n1, Plus1)
    IN  Assign(s3, idx, elem.n2, Minus1)

\* lines 474-479
StampVSource(elem, st, idx) ==
    [st EXCEPT !.N = Put(@, idx, 0, Neg(Val(Param(elem, "dc_value", NoOptions))))]

\* lines 480-486
StampEVSource(elem, st, idx) ==
    LET alpha == Val(Param(elem, "alpha", RealOnly))
    IN  Assign(Assign(st, idx, elem.sn1, Neg(alpha)), idx, elem.sn2, alpha)

\* lines 487-493
StampHVSource(c, elem, st, idx, n_of_nodes) ==
    LET alpha == Val(Param(elem, "alpha", RealOnly))
        source_index == find_vde_index(c, elem.source_id)
    IN  IF source_index = NotFound
        THEN [st EXCEPT !.raised = "NotFound"]
        ELSE Assign(st, idx, n_of_nodes + source_index, alpha)

\* lines 494-505
StampInductor(elem, st, idx, ac_) ==
    IF ac_
    THEN Assign(st, idx, idx, Neg(STimes(Param(elem, "L", RealPositive))))
    ELSE st

\* one iteration of the second loop
Pass2Elem(c, elem, st, ac_, n_of_nodes) ==
    IF ~is_elem_voltage_defined(elem) THEN st
    ELSE LET idx == st.mna.rows
             s4 == ExpandAndCouple(elem, st)
         IN  CASE elem.cls = "VSource" -> StampVSource(elem, s4, idx)
               [] elem.cls = "EVSource" -> StampEVSource(elem, s4, idx)
               [] elem.cls = "HVSource" -> StampHVSource(c, elem, s4, idx, n_of_nodes)
               [] elem.cls = "Inductor" -> StampInductor(elem, s4, idx, ac_)
               [] OTHER -> [s4 EXCEPT !.raised = RaiseUnsupported]

RECURSIVE Pass2(_, _, _, _, _)
Pass2(c, k, st, ac_, n_of_nodes) ==
    IF k > Len(c) \/ st.raised # "none" THEN st
    ELSE Pass2(c, k + 1, Pass2Elem(c, c[k], st, ac_, n_of_nodes), ac_, n_of_nodes)

---------------------------------------------------------------------------
\* generate_mna_and_N, Pass 3 (lines 511-540)

\* one coupling device cd of the inductor elem (lines 517-530)
StampCoupling(c, elem, cd, st, pre_vde) ==
    LET this_index == find_vde_index(c, elem.part_id)
        M == IF cd.is_symbolic
             THEN symbol_factory(cd.part_id, RealPositive)
             ELSE Number(cd.part_id \o <<".", "K">>)
        other_id == IF upper(cd.l1) = upper(elem.part_id) THEN cd.l2 ELSE cd.l1
        other_index == find_vde_index(c, other_id)
    IN  IF this_index = NotFound \/ other_index = NotFound
        THEN [st EXCEPT !.raised = "NotFound"]
        ELSE AddAssign(st, pre_vde + this_index, pre_vde + other_index,
                       Neg(STimes(M)))

RECURSIVE StampCouplings(_, _, _, _, _)
StampCouplings(c, elem, j, st, pre_vde) ==
    IF j > Len(elem.coupling_devices) \/ st.raised # "none" THEN st
    ELSE StampCouplings(c, elem, j + 1,
            StampCoupling(c, elem, elem.coupling_devices[j], st, pre_vde), pre_vde)

\* lines 531-538
StampFISource(c, elem, st, pre_vde) ==
    LET source_current_index == find_vde_index(c, elem.source_id)
        F == Val(IF elem.is_symbolic
                 THEN symbol_factory(elem.part_id, RealOnly)
                 ELSE Number(elem.part_id \o <<".", "alpha">>))
    IN  IF source_current_index = NotFound
        THEN [st EXCEPT !.raised = "NotFound"]
        ELSE AddAssign(AddAssign(st, elem.n1, pre_vde + source_current_index, F),
                       elem.n2, pre_vde + source_current_index, Neg(F))

\* one iteration of the third loop
Pass3Elem(c, elem, st, ac_, pre_vde) ==
    IF ac_ /\ elem.cls = "Inductor" THEN StampCouplings(c, elem, 1, st, pre_vde)
    ELSE IF elem.cls = "FISource" THEN StampFISource(c, elem, st, pre_vde)
    ELSE st

RECURSIVE Pass3(_, _, _, _, _)
Pass3(c, k, st, ac_, pre_vde) ==
    IF k > Len(c) \/ st.raised # "none" THEN st
    ELSE Pass3(c, k + 1, Pass3Elem(c, c[k], st, ac_, pre_vde), ac_, pre_vde)

\* generate_mna_and_N(circ, opts, ac, verbose): the record of what it returns
\* (mna, N, subs_g), of what it printed and of the exception that ended it
generate_mna_and_N(c, opts, ac_, verbose_) ==
    LET n_of_nodes == NumNodes
        st0 == [mna |-> smzeros(n_of_nodes, n_of_nodes),
                N |-> smzeros(n_of_nodes, 1),
                subs_g |-> <<>>, warnings |-> <<>>,
                raised |-> "none", index |-> <<>>]
        st1 == Pass1(c, 1, st0, opts, ac_, verbose_)
        pre_vde == st1.mna.rows
        st2 == Pass2(c, 1, st1, ac_, n_of_nodes)
    IN  Pass3(c, 1, st2, ac_, pre_vde)

---------------------------------------------------------------------------
\* get_variables (lines 288-316)

\* get_variables counting the reference node among the unknowns
get_variables_with_ref(c) ==
    LET nv_1 == NumNodes
        vde == VdePositions(c)
        idescr(k) == upper(c[CHOOSE p \in vde : VdeRank(c, p) = k].part_id)
        mna_size == nv_1 + Cardinality(vde)
    IN  [i \in 1 .. mna_size |->
           IF i - 1 < nv_1
           THEN symbol_factory(<<"V">> \o NodeName(i), NoOptions)
           ELSE symbol_factory(<<"I", "[">> \o idescr(i - 1 - nv_1) \o <<"]">>,
                               NoOptions)]

get_variables(c) ==
    LET nv_1 == NumNodes - 1
        vde == VdePositions(c)
        \* idescr[k], k from 0
        idescr(k) == upper(c[CHOOSE p \in vde : VdeRank(c, p) = k].part_id)
        mna_size == nv_1 + Cardinality(vde)
    IN  [i \in 1 .. mna_size |->
           IF i - 1 < nv_1
           THEN symbol_factory(<<"V">> \o NodeName(i), NoOptions)
           ELSE symbol_factory(<<"I", "[">> \o idescr(i - 1 - nv_1) \o <<"]">>,
                               NoOptions)]

---------------------------------------------------------------------------
\* parse_substitutions (lines 563-595)

\* the positions of "=" in l
EqPositions(l) == {i \in 1 .. Len(l) : l[i] = "="}

\* l.split("="), for a string with exactly one "="
SplitEq(l) ==
    LET i == CHOOSE j \in EqPositions(l) : TRUE
    IN  [v1 |-> SubSeq(l, 1, i - 1), v2 |-> SubSeq(l, i + 1, Len(l))]

\* v[0].upper() if v[0].upper() != 'R' else 'G'
LetterId(v) == IF UpperChar(v[1]) # "R" THEN UpperChar(v[1]) ELSE "G"

\* the assumptions parse_substitutions asks for
RequestedOptions(letter_id) ==
    IF letter_id \in {"R", "G", "L", "C", "M"} THEN RealPositive ELSE RealOnly

\* the symbol built for one side of an entry
SideSymbol(v) ==
    symbol_factory(<<LetterId(v)>> \o Rest(v), RequestedOptions(LetterId(v)))

\* one iteration of the loop: the dict updated, or the exception
ParseEntry(l, st) ==
    IF Cardinality(EqPositions(l)) # 1 THEN [st EXCEPT !.raised = "ValueError"]
    ELSE LET p == SplitEq(l)
         IN  IF Len(p.v1) = 0 \/ Len(p.v2) = 0
             THEN [st EXCEPT !.raised = "IndexError"]
             ELSE [st EXCEPT !.subs = (SideSymbol(p.v1) :> SideSymbol(p.v2)) @@ @]

RECURSIVE ParseLoop(_, _, _)
ParseLoop(sl, k, st) ==
    IF k > Len(sl) \/ st.raised # "none" THEN st
    ELSE ParseLoop(sl, k + 1, ParseEntry(sl[k], st))

parse_substitutions(sl) == ParseLoop(sl, 1, [subs |-> <<>>, raised |-> "none"])

---------------------------------------------------------------------------
\* apply_substitutions (lines 250-285): Matrix.subs(dict) substitutes in
\* every entry; sympy takes the pairs of a dict one after the other, the keys
\* (atoms) sorted by name, each on the result of the one before

\* the characters of symbol names, in code-point order
CharOrder == <<"0","1","2","3","4","5","6","7","8","9",
               "A","B","C","D","E","F","G","H","I","J","K","L","M",
               "N","O","P","Q","R","S","T","U","V","W","X","Y","Z",
               "[","]","_">>

Rank(ch) == CHOOSE i \in 1 .. Len(CharOrder) : CharOrder[i] = ch

RECURSIVE StrLess(_, _)
StrLess(a, b) ==
    IF Len(b) = 0 THEN FALSE
    ELSE IF Len(a) = 0 THEN TRUE
    ELSE IF Head(a) = Head(b) THEN StrLess(Tail(a), Tail(b))
    ELSE Rank(Head(a)) < Rank(Head(b))

\* the keys of a dict of symbols, sorted by name
SortedKeys(f) ==
    CHOOSE sq \in [1 .. Cardinality(DOMAIN f) -> DOMAIN f] :
        /\ \A k \in DOMAIN f : \E i \in DOMAIN sq : sq[i] = k
        /\ \A i, j \in DOMAIN sq : i < j => ~StrLess(sq[j].name, sq[i].name)

\* expr.subs(old, new) for symbols old and new
SubsOne(e, old, new) ==
    LET img(t) == IF t.atom = old THEN [t EXCEPT !.atom = new] ELSE t
        dom == {img(t) : t \in DOMAIN e}
        coef(u) ==
            (IF u \in DOMAIN e /\ u.atom # old THEN e[u] ELSE 0)
              + (IF u.atom = new /\ [u EXCEPT !.atom = old] \in DOMAIN e
                 THEN e[[u EXCEPT !.atom = old]] ELSE 0)
    IN  [u \in {v \in dom : coef(v) # 0} |-> coef(u)]

RECURSIVE SubsSeq(_, _, _, _)
SubsSeq(e, f, keys, k) ==
    IF k > Len(keys) THEN e
    ELSE SubsSeq(SubsOne(e, keys[k], f[keys[k]]), f, keys, k + 1)

\* expr.subs(f) for a dict f of symbols
SubsExpr(e, f) == SubsSeq(e, f, SortedKeys(f), 1)

\* Matrix.subs(f)
SubsMatrix(m, f) == [m EXCEPT !.e = [p \in DOMAIN m.e |-> SubsExpr(m.e[p], f)]]

\* the two results returned in the wrong order
apply_substitutions_swapped(mna_, N_, subs_) ==
    [mna |-> SubsMatrix(N_, subs_), N |-> SubsMatrix(mna_, subs_)]

apply_substitutions(mna_, N_, subs_) ==
    [mna |-> SubsMatrix(mna_, subs_), N |-> SubsMatrix(N_, subs_)]

---------------------------------------------------------------------------
\* The devices the circuits are drawn from

R1 == Device("Resistor", <<"R", "1">>, 1, 2)

\* a resistor given by its numeric value
R2 == [Device("Resistor", <<"R", "2">>, 2, 0) EXCEPT !.is_symbolic = FALSE]

C1 == Device("Capacitor", <<"C", "1">>, 2, 0)

L1 == Device("Inductor", <<"L", "1">>, 1, 2)

V1 == Device("VSource", <<"V", "1">>, 1, 0)

I1 == Device("ISource", <<"I", "1">>, 0, 2)

G1 == [Device("GISource", <<"G", "1">>, 2, 0) EXCEPT !.sn1 = 1, !.sn2 = 0]

\* a VCVS driving node 1, sensing (sn1, 2)
E1(sn1) == [Device("EVSource", <<"E", "1">>, 1, 0) EXCEPT !.sn1 = sn1, !.sn2 = 2]

H1 == [Device("HVSource", <<"H", "1">>, 2, 0) EXCEPT !.source_id = <<"V", "1">>]

F1 == [Device("FISource", <<"F", "1">>, 2, 0) EXCEPT !.source_id = <<"v", "1">>]

M1 == [Device("mosq_device", <<"M", "1">>, 2, 0) EXCEPT !.ng = 1]

D1 == Device("diode", <<"D", "1">>, 2, 0)

\* a device of a class that has no stamping rule
X1 == Device("Other", <<"x", "1">>, 1, 2)

\* a voltage-defined device of a class Pass 2 does not know
Y1 == [Device("Other", <<"Y", "1">>, 1, 2) EXCEPT !.is_voltage_defined = TRUE]

K1 == [part_id |-> <<"K", "1">>, is_symbolic |-> TRUE,
       l1 |-> <<"L", "2">>, l2 |-> <<"L", "3">>]

\* two inductors coupled by K1
L2 == [Device("Inductor", <<"L", "2">>, 1, 0) EXCEPT !.coupling_devices = <<K1>>]

L3 == [Device("Inductor", <<"L", "3">>, 2, 0) EXCEPT !.coupling_devices = <<K1>>]

\* an inductor and a resistor whose two terminals are the same node
L4 == Device("Inductor", <<"L", "4">>, 1, 1)

R5 == Device("Resistor", <<"R", "5">>, 2, 2)

Catalogue ==
    {R1, R2, C1, L1, V1, I1, G1, H1, F1, M1, D1, X1, Y1, L2, L3, L4, R5}
        \cup {E1(sn1) : sn1 \in Nodes}

\* part ids are pairwise distinct and a coupled inductor comes with its partner
WellFormed(c) ==
    /\ \A i, j \in 1 .. Len(c) : c[i].part_id = c[j].part_id => i = j
    /\ \A i \in 1 .. Len(c) : \A k \in 1 .. Len(c[i].coupling_devices) :
          LET cd == c[i].coupling_devices[k]
          IN  \A id \in {cd.l1, cd.l2} : \E j \in 1 .. Len(c) : c[j].part_id = id

CircuitsOver(devs) ==
    {c \in UNION {[1 .. n -> devs] : n \in 1 .. MaxElems} : WellFormed(c)}

Verbosity == {0, 3}

---------------------------------------------------------------------------
\* The assembler and get_variables, called as symbolic_analysis calls them

NoMatrix == smzeros(0, 0)

NoSolution == [kind |-> "unset", keys |-> {}, syms |-> {}]

NoSystem == [mna |-> NoMatrix, N |-> NoMatrix]

NoGains == [requested |-> FALSE, keys |-> {}]

InitCommon ==
    /\ ac = TRUE /\ r0s = FALSE /\ verbose = 3
    /\ subs_g = <<>> /\ index = <<>> /\ warnings = <<>>
    /\ raised = "none" /\ x = <<>>
    /\ subs = <<>>
    /\ sol = NoSolution /\ tfs = NoGains
    /\ once = NoSystem /\ twice = NoSystem

InitAsm ==
    /\ InitCommon
    /\ pc = "start"
    /\ mna = NoMatrix /\ N = NoMatrix
    /\ slist = <<>>
    /\ circ \in CircuitsOver(Catalogue)

\* lines 140-141: mna, N, subs_g = generate_mna_and_N(circ, opts, ac, verbose)
GenerateMnaAndN ==
    /\ pc = "start"
    /\ \E a \in BOOLEAN, r \in BOOLEAN, v \in Verbosity :
         LET g == generate_mna_and_N(circ, [r0s |-> r], a, v)
             ok == g.raised = "none"
         IN  /\ ac' = a /\ r0s' = r /\ verbose' = v
             /\ mna' = IF ok THEN g.mna ELSE mna
             /\ N' = IF ok THEN g.N ELSE N
             /\ subs_g' = IF ok THEN g.subs_g ELSE subs_g
             /\ index' = g.index
             /\ warnings' = g.warnings
             /\ raised' = g.raised
             /\ pc' = IF ok THEN "generated" ELSE "raised"
    /\ UNCHANGED <<circ, x, slist, subs, sol, tfs, once, twice>>

\* lines 142-144: x = get_variables(circ); mna = mna[1:, 1:]; N = N[1:, :]
GetVariables ==
    /\ pc = "generated"
    /\ x' = get_variables(circ)
    /\ mna' = DropFirst(mna, TRUE)
    /\ N' = DropFirst(N, FALSE)
    /\ pc' = "built"
    /\ UNCHANGED <<circ, ac, r0s, verbose, subs_g, index, warnings, raised,
                   slist, subs, sol, tfs, once, twice>>

NextAsm == GenerateMnaAndN \/ GetVariables

SpecAsm == InitAsm /\ [][NextAsm]_vars

---------------------------------------------------------------------------
\* Properties of the assembler (checked under SpecAsm)

Called == pc # "start"

\* the record of Pass 2 for the device named id
IndexOf(id) == (CHOOSE k \in 1 .. Len(index) : index[k].part_id = id)

HasRow(id) == \E k \in 1 .. Len(index) : index[k].part_id = id

RowOf(id) == index[IndexOf(id)].index

DevicesOf(c) == {c[k] : k \in 1 .. Len(c)}

\* C1: the unknowns of get_variables line up with the rows and columns of the
\* assembler once row and column 0 are dropped: entry i (from 0) for
\* i < node_count-1 is the voltage of node i+1, the entry of the device that
\* Pass 2 gave row `index` is I[<ID>] at position index-1, and the reduced
\* matrix is square with as many rows as there are unknowns
C1_UnknownsMatchRows ==
    pc = "built" =>
       /\ mna.rows = mna.cols
       /\ mna.rows = Len(x)
       /\ N.rows = Len(x)
       /\ \A i \in 1 .. (NumNodes - 1) :
             x[i] = [kind |-> "Symbol", name |-> <<"V", Digits[i + 1]>>, assum |-> {}]
       /\ \A e \in DevicesOf(circ) : is_elem_voltage_defined(e) => HasRow(e.part_id)
       /\ \A k \in 1 .. Len(index) :
             x[index[k].index] =
                [kind |-> "Symbol",
                 name |-> <<"I", "[">> \o upper(index[k].part_id) \o <<"]">>,
                 assum |-> {}]

\* two voltage-defined devices, both given a row, and the unknowns built
C1_Witness == pc = "built" /\ Len(index) >= 2

SupportedVde == {"VSource", "EVSource", "HVSource", "Inductor"}

\* C4: a voltage-defined device of a class Pass 2 does not know, once Pass 2
\* reaches it, ends the assembly with circuit.CircuitError and nothing is returned
C4_UnsupportedVdeRaisesCircuitError ==
    (Called /\ \E e \in DevicesOf(circ) :
                  e.cls \notin SupportedVde /\ HasRow(e.part_id))
       => (pc = "raised" /\ raised = "CircuitError" /\ mna = NoMatrix /\ N = NoMatrix)

\* the classes the first loop has a branch for
Pass1Classes ==
    {"Resistor", "Capacitor", "Inductor", "GISource", "ISource", "mosq_device",
     "ekv_device", "diode", "FISource", "InductorCoupling"}

NoStampingRule(e) == e.cls \notin Pass1Classes /\ ~is_elem_voltage_defined(e)

Supported(e) == ~NoStampingRule(e)

\* C5 as stated: whatever the verbosity, every device with no stamping rule
\* (and not voltage-defined) is named in a warning
C5_AlwaysWarns ==
    Called => \A e \in DevicesOf(circ) :
                 NoStampingRule(e) =>
                    \E k \in 1 .. Len(warnings) : warnings[k] = upper(e.part_id)

\* C5 amended: a device with no stamping rule changes neither the outcome nor
\* any entry of the matrix and vector (they are those of the circuit without
\* it); it is named in a warning when verbose is not 0, and in none when
\* verbose is 0
C5_SkipsAndWarnsUnlessSilent ==
    Called =>
       LET kept == SelectSeq(circ, Supported)
           skipped == SelectSeq(circ, NoStampingRule)
           g == generate_mna_and_N(kept, [r0s |-> r0s], ac, verbose)
       IN  /\ raised = g.raised
           /\ pc = "generated" => (mna = g.mna /\ N = g.N /\ subs_g = g.subs_g)
           /\ verbose # 0 =>
                 warnings = [k \in 1 .. Len(skipped) |-> upper(skipped[k].part_id)]
           /\ verbose = 0 => warnings = <<>>

\* a device with no stamping rule was skipped with a warning, next to a
\* device that was stamped
C5_Witness ==
    /\ pc = "generated" /\ verbose # 0 /\ Len(warnings) = 1
    /\ \E e \in DevicesOf(circ) : NoStampingRule(e)
    /\ MatrixSymbols(mna) # {}

\* the entry a VCVS row or column holds when every stamp is added
VcvsRowSum(e, c) ==
    LET alpha == Val(Param(e, "alpha", RealOnly))
    IN  Add(Add(IF c = e.n1 THEN Plus1 ELSE Zero, IF c = e.n2 THEN Minus1 ELSE Zero),
            Add(IF c = e.sn1 THEN Neg(alpha) ELSE Zero, IF c = e.sn2 THEN alpha ELSE Zero))

VcvsColSum(e, r) ==
    Add(IF r = e.n1 THEN Plus1 ELSE Zero, IF r = e.n2 THEN Minus1 ELSE Zero)

\* C8: the row of a VCVS holds in each node column the sum of its stamps
\* (+1 at n1, -1 at n2, -alpha at sn1, +alpha at sn2) and its column holds in
\* each node row the sum of +1 at n1 and -1 at n2
C8_VcvsRowIsSumOfStamps ==
    pc = "generated" =>
       \A e \in DevicesOf(circ) :
          e.cls = "EVSource" =>
             \A c \in Nodes :
                /\ Get(mna, RowOf(e.part_id), c) = VcvsRowSum(e, c)
                /\ Get(mna, c, RowOf(e.part_id)) = VcvsColSum(e, c)

\* the devices named id
Named(c, id) == {e \in DevicesOf(c) : upper(e.part_id) = upper(id)}

\* C9: for a CCVS whose controlling source is a voltage-defined device of the
\* circuit (all of supported classes), before or after it, Pass 2 completes and
\* the CCVS row holds +alpha in the column Pass 2 gives the controlling source
C9_CcvsStampsSourceColumn ==
    (Called /\ \A e \in DevicesOf(circ) :
                  is_elem_voltage_defined(e) => e.cls \in SupportedVde)
       => \A h \in DevicesOf(circ) :
             (h.cls = "HVSource"
                 /\ \E v \in Named(circ, h.source_id) : is_elem_voltage_defined(v))
                => /\ raised = "none"
                   /\ \A v \in Named(circ, h.source_id) :
                         /\ HasRow(v.part_id) /\ HasRow(h.part_id)
                         /\ pc = "generated" =>
                               Get(mna, RowOf(h.part_id), RowOf(v.part_id))
                                  = Val(Param(h, "alpha", RealOnly))

IsReactive(e) == e.cls \in {"Capacitor", "Inductor"}

NotReactive(e) == ~IsReactive(e)

NotCapacitor(e) == e.cls # "Capacitor"

IntroducedSymbols(elem, opts, ac_) ==
    LET rec(role, sym) == [part_id |-> elem.part_id, role |-> role, sym |-> sym]
        own(role, options) ==
            IF elem.is_symbolic
            THEN {rec(role, symbol_factory(upper(elem.part_id), options))}
            ELSE {}
    IN  CASE elem.cls = "Resistor" ->
               own("R", RealPositive)
                 \cup (IF elem.is_symbolic
                       THEN {rec("G", symbol_factory(<<"G">> \o Rest(elem.part_id),
                                                     RealPositive))}
                       ELSE {})
          [] elem.cls = "Capacitor" -> IF ac_ THEN own("capa", RealPositive) ELSE {}
          [] elem.cls = "GISource" -> own("alpha", RealOnly)
          [] elem.cls = "ISource" -> own("IDC", NoOptions)
          [] elem.cls \in {"mosq_device", "ekv_device"} ->
               {rec("gm", symbol_factory(<<"g", "m", "_">> \o elem.part_id,
                                         RealPositive))}
                 \cup (IF opts.r0s
                       THEN {rec("r0", symbol_factory(<<"r", "0", "_">> \o elem.part_id,
                                                      RealPositive))}
                       ELSE {})
          [] elem.cls = "diode" ->
               {rec("gd", symbol_factory(<<"g">> \o elem.part_id, PositiveOnly))}
          [] elem.cls = "VSource" -> own("VDC", NoOptions)
          [] elem.cls = "EVSource" -> own("alpha", RealOnly)
          [] elem.cls = "HVSource" -> own("alpha", RealOnly)
          [] elem.cls = "Inductor" ->
               IF ac_
               THEN own("L", RealPositive)
                      \cup {[part_id |-> elem.coupling_devices[k].part_id,
                             role |-> "M",
                             sym |-> symbol_factory(elem.coupling_devices[k].part_id,
                                                    RealPositive)] :
                              k \in {j \in 1 .. Len(elem.coupling_devices) :
                                       elem.coupling_devices[j].is_symbolic}}
               ELSE {}
          [] elem.cls = "FISource" ->
               IF elem.is_symbolic
               THEN {rec("F", symbol_factory(elem.part_id, RealOnly))}
               ELSE {}
          [] OTHER -> {}

\* the symbols created for the devices of a circuit
CircuitSymbols(c, opts, ac_) ==
    UNION {IntroducedSymbols(c[k], opts, ac_) : k \in 1 .. Len(c)}

\* C11: in a circuit with pairwise distinct part ids, the symbols created for
\* different devices or different roles are pairwise distinct; in particular
\* a key of the auxiliary map G -> 1/R is the symbol of one resistor's
\* conductance and of nothing else
C11_SymbolNamingInjective ==
    pc = "generated" =>
       \A a, b \in CircuitSymbols(circ, [r0s |-> r0s], ac) :
          a.sym = b.sym => (a.part_id = b.part_id /\ a.role = b.role)

\* the sum of the entries of column c of m over the rows 0 .. r
RECURSIVE SumRows(_, _, _)
SumRows(m, c, r) ==
    IF r < 0 THEN Zero ELSE Add(Get(m, r, c), SumRows(m, c, r - 1))

\* the classes the three loops stamp
StampedClasses == Pass1Classes \cup SupportedVde

\* C12: for a circuit of supported devices (terminals may coincide), once the
\* three passes are over and before the reference node is removed, the entries
\* of the node rows 0 .. node_count-1 sum to zero in every column of the matrix
\* and in the constant vector
C12_NodeRowsSumToZero ==
    (pc = "generated" /\ \A e \in DevicesOf(circ) : e.cls \in StampedClasses)
       => /\ \A c \in 0 .. (mna.cols - 1) : SumRows(mna, c, NumNodes - 1) = Zero
          /\ SumRows(N, 0, NumNodes - 1) = Zero

---------------------------------------------------------------------------
\* parse_substitutions and apply_substitutions called on their own

Str_R1_R2 == <<"R", "1", "=", "R", "2">>
Str_R2_R1 == <<"R", "2", "=", "R", "1">>
Str_R1_R3 == <<"R", "1", "=", "R", "3">>
Str_r2_r3 == <<"r", "2", "=", "r", "3">>
Str_C1_C2 == <<"c", "1", "=", "C", "2">>
Str_V1_V2 == <<"V", "1", "=", "v", "2">>
Str_NoEq == <<"R", "1">>

SubstStrings ==
    {Str_R1_R2, Str_R2_R1, Str_R1_R3, Str_r2_r3, Str_C1_C2, Str_V1_V2, Str_NoEq}

SubstLists == UNION {[1 .. n -> SubstStrings] : n \in 0 .. MaxSubs}

SymG(k) == symbol_factory(<<"G", Digits[k + 1]>>, RealPositive)

\* the entries of the systems the substitutions are applied to
InputExprs ==
    {Val(SymG(1)), Val(SymG(2)),
     Add(Val(SymG(1)), Val(SymG(2))),
     Add(Val(SymG(1)), Neg(Val(SymG(2)))),
     Add(Val(SymG(3)), STimes(symbol_factory(<<"C", "1">>, RealPositive)))}

InputVectors == {Zero, Neg(Val(symbol_factory(<<"V", "1">>, NoOptions)))}

InitSubs ==
    /\ InitCommon
    /\ pc = "subs_start"
    /\ circ = <<>>
    /\ slist \in SubstLists
    /\ \E a \in InputExprs, b \in InputVectors :
          /\ mna = Put(smzeros(1, 1), 0, 0, a)
          /\ N = Put(smzeros(1, 1), 0, 0, b)

\* subs = parse_substitutions(slist)
ParseSubstitutions ==
    /\ pc = "subs_start"
    /\ LET r == parse_substitutions(slist)
       IN  /\ raised' = r.raised
           /\ subs' = IF r.raised = "none" THEN r.subs ELSE subs
           /\ pc' = IF r.raised = "none" THEN "parsed" ELSE "raised"
    /\ UNCHANGED <<circ, ac, r0s, verbose, mna, N, subs_g, index, warnings, x,
                   slist, sol, tfs, once, twice>>

\* mna1, N1 = apply_substitutions(mna, N, subs)
ApplyFirst ==
    /\ pc = "parsed"
    /\ once' = apply_substitutions(mna, N, subs)
    /\ pc' = "applied1"
    /\ UNCHANGED <<circ, ac, r0s, verbose, mna, N, subs_g, index, warnings,
                   raised, x, slist, subs, sol, tfs, twice>>

\* mna2, N2 = apply_substitutions(mna1, N1, subs)
ApplyAgain ==
    /\ pc = "applied1"
    /\ twice' = apply_substitutions(once.mna, once.N, subs)
    /\ pc' = "applied2"
    /\ UNCHANGED <<circ, ac, r0s, verbose, mna, N, subs_g, index, warnings,
                   raised, x, slist, subs, sol, tfs, once>>

NextSubs == ParseSubstitutions \/ ApplyFirst \/ ApplyAgain

SpecSubs == InitSubs /\ [][NextSubs]_vars

Range(f) == {f[k] : k \in DOMAIN f}

\* C6 as stated: a second application of the mapping returns the matrix and
\* the vector of the first application, whatever the mapping
C6_Idempotent == pc = "applied2" => twice = once

\* C6 amended: a second application returns the matrix and the vector of the
\* first whenever no replacement value of the mapping is a symbol of the
\* mapping's own domain
C6_IdempotentWhenValuesOutsideDomain ==
    (pc = "applied2" /\ Range(subs) \cap DOMAIN subs = {}) => twice = once

\* a mapping with values outside its domain that rewrote the system, applied twice
C6_Witness ==
    /\ pc = "applied2"
    /\ subs # <<>>
    /\ Range(subs) \cap DOMAIN subs = {}
    /\ once.mna # mna

\* the letter a side's symbol is named with
RemappedLetter(sym) == sym.name[1]

\* C7 as stated: each symbol of the mapping carries real and positive when its
\* remapped leading letter is one of R, G, L, C, M and real alone otherwise
C7_AssumptionsReachSymbol ==
    pc = "parsed" =>
       \A sym \in DOMAIN subs \cup Range(subs) :
          sym.assum = IF RemappedLetter(sym) \in {"R", "G", "L", "C", "M"}
                      THEN {"real", "positive"} ELSE {"real"}

\* C7 amended: parse_substitutions asks for real and positive (leading letter
\* among R, G, L, C, M after the remapping) or for real alone, but
\* _symbol_factory forwards no assumption that enabled_assumptions disables:
\* every symbol of the mapping carries neither real nor positive; each entry
\* has a key named by its left side, upper-cased, a leading R replaced by G
C7_AssumptionsFiltered ==
    pc = "parsed" =>
       /\ \A sym \in DOMAIN subs \cup Range(subs) :
             /\ sym.assum = {}
             /\ sym.name = upper(sym.name)
             /\ sym.name[1] # "R"
       /\ \A i \in 1 .. Len(slist) :
             \E sym \in DOMAIN subs :
                /\ Rest(sym.name) = upper(Rest(SplitEq(slist[i]).v1))
                /\ UpperChar(slist[i][1]) \in {sym.name[1], "R"}

\* a parsed list with a side that asks for real and positive and one that
\* asks for real alone
C7_Witness ==
    /\ pc = "parsed"
    /\ \E sym \in DOMAIN subs : sym.name[1] = "G"
    /\ \E sym \in DOMAIN subs : sym.name[1] = "V"

---------------------------------------------------------------------------
\* symbolic_analysis (lines 89-203), after its first two steps
\* GenerateMnaAndN and GetVariables

\* a symbolic resistor to ground
R3 == Device("Resistor", <<"R", "3">>, 2, 0)

AnalysisCatalogue == {V1, I1, R1, R2, R3, G1}

Str_R3_R4 == <<"R", "3", "=", "R", "4">>

\* the substitution lists symbolic_analysis is called with (through
\* parse_substitutions)
AnalysisSubstLists == {<<>>, <<Str_R1_R2>>, <<Str_R3_R4>>}

Init ==
    /\ InitCommon
    /\ pc = "start"
    /\ mna = NoMatrix /\ N = NoMatrix
    /\ slist = <<>>
    /\ circ \in CircuitsOver(AnalysisCatalogue)

\* line 149: mna, N = apply_substitutions(mna, N, subs), subs being what
\* parse_substitutions made of the caller's list
ApplySubstitutions ==
    /\ pc = "built"
    /\ \E sl \in AnalysisSubstLists :
          LET sb == parse_substitutions(sl).subs
              r == apply_substitutions(mna, N, sb)
          IN  /\ slist' = sl
              /\ subs' = sb
              /\ mna' = r.mna
              /\ N' = r.N
    /\ pc' = "substituted"
    /\ UNCHANGED <<circ, ac, r0s, verbose, subs_g, index, warnings, raised, x,
                   sol, tfs, once, twice>>

\* the columns in which row r of the system holds a non-zero coefficient
NonZeroCols(mna_, r) == {c \in 0 .. (mna_.cols - 1) : Get(mna_, r, c) # Zero}

\* an equation 0 * x + N[r] = 0 with N[r] not zero: the system has no solution
Contradictory(mna_, N_) ==
    \E r \in 0 .. (mna_.rows - 1) :
       NonZeroCols(mna_, r) = {} /\ Get(N_, r, 0) # Zero

\* an equation a * x[c] + b = 0 in one unknown, b not zero and sharing no
\* symbol with a, gives x[c] = -b / a, which mentions the symbols of a and b
SolvedSymbols(mna_, N_) ==
    UNION {LET b == Get(N_, r, 0)
               a == Get(mna_, r, CHOOSE c \in NonZeroCols(mna_, r) : TRUE)
           IN  IF b # Zero /\ FreeSymbols(a) \cap FreeSymbols(b) = {}
               THEN FreeSymbols(a) \cup FreeSymbols(b) ELSE {} :
           r \in {q \in 0 .. (mna_.rows - 1) :
                    Cardinality(NonZeroCols(mna_, q)) = 1}}

\* what sympy.solve(eq, x, ...) returns for the equations mna * x + N = 0.
\* With a contradictory equation there is no solution: sympy gives the empty
\* list (the code tests for the empty dict).  Otherwise a dict from unknowns to
\* expressions; an expression is held by the symbols it is sure to mention,
\* those of the equations in one unknown
SolveOutcomes(mna_, N_, x_) ==
    IF Contradictory(mna_, N_)
    THEN {[kind |-> "list", keys |-> {}, syms |-> {}],
          [kind |-> "dict", keys |-> {}, syms |-> {}]}
    ELSE {[kind |-> "dict", keys |-> {x_[i] : i \in 1 .. Len(x_)},
           syms |-> SolvedSymbols(mna_, N_)]}

\* lines 170-171: sol = sympy.solve(eq, x, ...)
Solve ==
    /\ pc = "substituted"
    /\ sol' \in SolveOutcomes(mna, N, x)
    /\ pc' = "solved"
    /\ UNCHANGED <<circ, ac, r0s, verbose, mna, N, subs_g, index, warnings,
                   raised, x, slist, subs, tfs, once, twice>>

\* the symbols of expr.subs(old, 1/new)
SubsOneSymbols(S, old, new) == IF old \in S THEN (S \ {old}) \cup {new} ELSE S

RECURSIVE SubsSeqSymbols(_, _, _, _)
SubsSeqSymbols(S, f, keys, k) ==
    IF k > Len(keys) THEN S
    ELSE SubsSeqSymbols(SubsOneSymbols(S, keys[k], f[keys[k]]), f, keys, k + 1)

\* lines 173-174: for ks in list(sol.keys()): sol[ks] = sol[ks].subs(subs_g);
\* a list has no keys()
BackSubstitute ==
    /\ pc = "solved"
    /\ IF sol.kind = "list"
       THEN /\ raised' = "AttributeError"
            /\ pc' = "raised"
            /\ sol' = sol
       ELSE /\ sol' = [sol EXCEPT !.syms =
                          SubsSeqSymbols(@, subs_g, SortedKeys(subs_g), 1)]
            /\ pc' = "rewritten"
            /\ raised' = raised
    /\ UNCHANGED <<circ, ac, r0s, verbose, mna, N, subs_g, index, warnings, x,
                   slist, subs, tfs, once, twice>>

NoSolutionsWarning == <<"No solutions. Check the netlist.">>

\* the sources a transfer function is asked for: None, or a part_id
Sources == {<<>>, <<"v", "1">>}

\* calculate_gains(sol, xin): one entry "<key>/<xin>" per solved unknown
calculate_gains(sol_, xin) == {k.name \o <<"/">> \o xin.name : k \in sol_.keys}

\* lines 176-203: the warning of an empty solution, the transfer functions,
\* the results
Finish ==
    /\ pc = "rewritten"
    /\ warnings' = IF sol.keys = {} THEN Append(warnings, NoSolutionsWarning)
                   ELSE warnings
    /\ \E source \in Sources :
          tfs' = IF source = <<>> THEN NoGains
                 ELSE [requested |-> TRUE,
                       keys |-> calculate_gains(sol, symbol_factory(upper(source),
                                                                   NoOptions))]
    /\ pc' = "done"
    /\ UNCHANGED <<circ, ac, r0s, verbose, mna, N, subs_g, index, raised, x,
                   slist, subs, sol, once, twice>>

Next ==
    \/ GenerateMnaAndN
    \/ GetVariables
    \/ ApplySubstitutions
    \/ Solve
    \/ BackSubstitute
    \/ Finish

Spec == Init /\ [][Next]_vars

\* the conductance symbols parse_substitutions makes of the sides that name
\* a resistance
RemappedSides(sl) ==
    UNION {LET p == SplitEq(sl[i])
           IN  {SideSymbol(v) : v \in {w \in {p.v1, p.v2} : UpperChar(w[1]) = "R"}} :
           i \in 1 .. Len(sl)}

\* C2: once symbolic_analysis has finished, no internal conductance symbol
\* (made by the assembler for a symbolic resistor, or by the R -> G remapping
\* of parse_substitutions) occurs in the returned solution
C2_NoConductanceSymbolReturned ==
    pc = "done" => sol.syms \cap (DOMAIN subs_g \cup RemappedSides(slist)) = {}

\* C3: when the solver returns no solution (the empty list or the empty
\* dict), symbolic_analysis raises nothing
C3_NoSolutionDoesNotRaise ==
    (sol.kind # "unset" /\ sol.keys = {}) => raised = "none"

====
